---- MODULE Spec2Model ----
(***************************************************************************)
(* Leaderboard vote grapher (src/plot_elect.py): the ingestion loop of     *)
(* main(), the periodic graph task, the checkpoint file and the process    *)
(* life cycle (kill / start).                                              *)
(*                                                                         *)
(* main() gives up control only at its awaits: the fetch, the final graph  *)
(* of a reset (lock, then executor) and the write of the state file. The   *)
(* periodic graph task runs on the same event loop, its save_graph_sync in *)
(* an executor thread that runs in parallel with main().                   *)
(*                                                                         *)
(* Time is counted in hours since midnight of day 0 in America/New_York.   *)
(* A datetime t has date t \div 24 and hour t % 24.                        *)
(*                                                                         *)
(* Spec is the whole program. SpecWindow is the ingestion loop over more   *)
(* ticks, SpecShutdown adds the exit through the finally clause, SpecFetch *)
(* takes one call of async_fetch_data apart, SpecRoundTrip applies         *)
(* async_save_state and load_state to bounded inputs, and SpecHourly is    *)
(* the hourly variant of the script (src/plot.py).                         *)
(***************************************************************************)
EXTENDS Integers, Sequences, FiniteSets, TLC

VARIABLES
    running,          \* the process is up
    pc,               \* position of main(): "down", "loop", "fetching", "final_wait",
                      \* "final_render"
    clock,            \* last value returned by datetime.now(est)
    data,             \* outcome of the last fetch: "none" or "players"
    players,          \* data["players"] of the last fetch
    data_dict,        \* History: sequence (insertion order) of [username, records]
    dict_id,          \* identity of the dict object bound to data_dict
    reset_time,       \* epoch boundary
    leaderboard_size, \* fetch window size
    client_index,     \* rotation index into clients
    state_file,       \* content of JSON_STATE_FILE on disk
    lock,             \* holder of the asyncio.Lock: "free", "main", "periodic"
    gpc,              \* position of the periodic graph task: "none", "idle", "render"
    task_args,        \* (reset_time, dict object) the periodic task was created with
    final_graph,      \* save_graph_sync calls made by main() during the current tick
    attempt,          \* async_fetch_data: iterations of "for attempt" begun by the call
    responses,        \* what the server does on the successive attempts of the call
    saved_state,      \* the value load_state() returned
    artifact          \* what the last save_graph_sync call met and did

vars == <<running, pc, clock, data, players, data_dict, dict_id, reset_time, leaderboard_size,
          client_index, state_file, lock, gpc, task_args, final_graph,
          attempt, responses, saved_state, artifact>>

\* the fetch call taken apart and the value of load_state(): used by the
\* specifications that look inside these two calls
auxVars == <<attempt, responses, saved_state>>

----------------------------------------------------------------------------
(* Bounds of the model *)

MaxTime == 30        \* no clock reading is later than this
ClockStep == 6       \* hours between two successive clock readings
MaxScore == 2        \* highest score in a ranking
MaxHist == 2         \* longest per-entity history explored
NumClients == 2      \* number of proxies in proxies.txt
WindowMaxTime == 66  \* last clock reading of the longer runs of SpecWindow
SourceMaxTime == 48  \* last clock reading of the runs of SpecSource: past two boundaries

(* Program constants *)

HoursPerDay == 24
ResetHour == 14
FloorSize == 50
max_leaderboard_size == 12000

Usernames == {"a", "b"}
Scores == 0..MaxScore
\* a ranking lists at most as many players as there are usernames
MaxPlayers == Cardinality(Usernames)

Player == [username : Usernames, score : Scores]

RECURSIVE SeqsUpTo(_, _)
SeqsUpTo(S, n) ==
    IF n = 0 THEN {<<>>}
    ELSE LET shorter == SeqsUpTo(S, n - 1)
         IN  shorter \cup {Append(q, x) : q \in {r \in shorter : Len(r) = n - 1}, x \in S}

\* the rankings a successful fetch can return (data["players"])
Rankings == SeqsUpTo(Player, MaxPlayers)

----------------------------------------------------------------------------
(* datetime helpers *)

DateOf(t) == t \div HoursPerDay
HourOf(t) == t % HoursPerDay
Combine(date, hour) == date * HoursPerDay + hour

\* datetime.isoformat(): the textual fields of the timestamp
IsoFormat(t) == [date |-> DateOf(t), hour |-> HourOf(t)]
\* datetime.fromisoformat()
FromIsoFormat(s) == Combine(s.date, s.hour)

get_next_reset_time(now_est) ==
    LET today == Combine(DateOf(now_est), ResetHour)
    IN  IF now_est >= today THEN today + HoursPerDay ELSE today

\* mutant: 2 PM of the tick's own day, without "+ timedelta(days=1)"
RolloverResetTimeSameDay(current_time) ==
    Combine(DateOf(current_time), ResetHour)

\* the boundary computed at rollover from the tick's current_time
RolloverResetTime(current_time) ==
    Combine(DateOf(Combine(DateOf(current_time), 0) + HoursPerDay), ResetHour)

----------------------------------------------------------------------------
(* History *)

Keys(d) == {d[i].username : i \in DOMAIN d}
IndexOf(d, u) == CHOOSE i \in DOMAIN d : d[i].username = u
RecordsOf(d, u) == d[IndexOf(d, u)].records
Last(s) == s[Len(s)]

\* mutant: the point is appended without the "score != last score" test
TrackPlayerAlways(d, player, current_time) ==
    LET point == [time |-> current_time, score |-> player.score]
    IN  IF player.username \notin Keys(d)
        THEN Append(d, [username |-> player.username, records |-> <<point>>])
        ELSE [d EXCEPT ![IndexOf(d, player.username)].records = Append(@, point)]

\* mutant: a changed score replaces the entity's last point
TrackPlayerOverwrite(d, player, current_time) ==
    LET point == [time |-> current_time, score |-> player.score]
    IN  IF player.username \notin Keys(d)
        THEN Append(d, [username |-> player.username, records |-> <<point>>])
        ELSE IF /\ Len(RecordsOf(d, player.username)) > 0
                /\ player.score # Last(RecordsOf(d, player.username)).score
             THEN [d EXCEPT ![IndexOf(d, player.username)].records =
                        [@ EXCEPT ![Len(@)] = point]]
             ELSE d

\* body of the "Tracking changes in score" loop for one player
TrackPlayer(d, player, current_time) ==
    LET point == [time |-> current_time, score |-> player.score]
    IN  IF player.username \notin Keys(d)
        THEN Append(d, [username |-> player.username, records |-> <<point>>])
        ELSE IF /\ Len(RecordsOf(d, player.username)) > 0
                /\ player.score # Last(RecordsOf(d, player.username)).score
             THEN [d EXCEPT ![IndexOf(d, player.username)].records = Append(@, point)]
             ELSE d

RECURSIVE TrackFrom(_, _, _, _)
TrackFrom(d, ranking, i, current_time) ==
    IF i > Len(ranking) THEN d
    ELSE TrackFrom(TrackPlayer(d, ranking[i], current_time), ranking, i + 1, current_time)

TrackChanges(d, ranking, current_time) == TrackFrom(d, ranking, 1, current_time)

\* mutant: any() in place of all()
any_zero_scores(ranking) == \E i \in DOMAIN ranking : ranking[i].score = 0

all_zero_scores(ranking) == \A i \in DOMAIN ranking : ranking[i].score = 0

\* mutant: players[0] in place of players[-1]
NextLeaderboardSizeTop(size, ranking) ==
    IF /\ Len(ranking) > 0
       /\ ranking[1].score > 0
       /\ size < max_leaderboard_size
    THEN IF size * 2 < max_leaderboard_size THEN size * 2 ELSE max_leaderboard_size
    ELSE size

\* mutant: the doubling without min(.., max_leaderboard_size)
NextLeaderboardSizeUncapped(size, ranking) ==
    IF /\ Len(ranking) > 0
       /\ Last(ranking).score > 0
       /\ size < max_leaderboard_size
    THEN size * 2
    ELSE size

\* "Check last score to increase leaderboard size as needed"
NextLeaderboardSize(size, ranking) ==
    IF /\ Len(ranking) > 0
       /\ Last(ranking).score > 0
       /\ size < max_leaderboard_size
    THEN IF size * 2 < max_leaderboard_size THEN size * 2 ELSE max_leaderboard_size
    ELSE size

----------------------------------------------------------------------------
(* Checkpoint file *)

Absent == [kind |-> "absent"]
Truncated == [kind |-> "truncated"]
NoTask == [kind |-> "none"]
NotLoaded == [kind |-> "unset"]

----------------------------------------------------------------------------
(* Graph files *)

\* mutant: only the synced folder is tried
SaveFileNoFallback(synced_ok, local_ok) ==
    [tried |-> <<"synced">>,
     saved |-> IF synced_ok THEN "synced" ELSE "none",
     returned |-> synced_ok]

\* save_file_with_fallback, given whether a write to the rsync-synced folder and a
\* write to the local backup folder succeed: the folders it wrote to in order, where
\* the file ended up, and its return value
save_file_with_fallback(synced_ok, local_ok) ==
    IF synced_ok
    THEN [tried |-> <<"synced">>, saved |-> "synced", returned |-> TRUE]
    ELSE IF local_ok
         THEN [tried |-> <<"synced", "local">>, saved |-> "local", returned |-> TRUE]
         ELSE [tried |-> <<"synced", "local">>, saved |-> "none", returned |-> FALSE]

NotCalled == [tried |-> <<>>, saved |-> "none", returned |-> FALSE]

\* what a save_graph_sync call can meet: the figure is rendered or to_html / to_image
\* raises, and each of the four writes succeeds or fails
RenderOutcomes ==
    [render : BOOLEAN, html_synced : BOOLEAN, html_local : BOOLEAN,
     png_synced : BOOLEAN, png_local : BOOLEAN]

NoOutcome ==
    [render |-> TRUE, html_synced |-> TRUE, html_local |-> TRUE,
     png_synced |-> TRUE, png_local |-> TRUE]

NoArtifact == [met |-> NoOutcome, raised |-> FALSE, html |-> NotCalled, png |-> NotCalled]

\* save_graph_sync: the figure, then the HTML file, then the PNG file
save_graph_sync(o) ==
    IF o.render
    THEN [met |-> o, raised |-> FALSE,
          html |-> save_file_with_fallback(o.html_synced, o.html_local),
          png |-> save_file_with_fallback(o.png_synced, o.png_local)]
    ELSE [met |-> o, raised |-> TRUE, html |-> NotCalled, png |-> NotCalled]

\* the JSON document async_save_state builds
SerializeState(d, rt) ==
    [kind |-> "json",
     data_dict |-> [i \in DOMAIN d |->
        [username |-> d[i].username,
         records |-> [j \in DOMAIN d[i].records |->
            [time |-> IsoFormat(d[i].records[j].time),
             score |-> d[i].records[j].score]]]],
     reset_time |-> IsoFormat(rt)]

\* load_state() on a well-formed document
LoadDataDict(f) ==
    [i \in DOMAIN f.data_dict |->
        [username |-> f.data_dict[i].username,
         records |-> [j \in DOMAIN f.data_dict[i].records |->
            [time |-> FromIsoFormat(f.data_dict[i].records[j].time),
             score |-> f.data_dict[i].records[j].score]]]]
LoadResetTime(f) == FromIsoFormat(f.reset_time)

\* "Load saved state if it exists and is still valid"
StateIsValid(f, rt) == HourOf(LoadResetTime(f)) = HourOf(rt)
----------------------------------------------------------------------------
TypeOK ==
    /\ running \in BOOLEAN
    /\ pc \in {"down", "loop", "fetching", "final_wait", "final_render"}
    /\ clock \in 0..WindowMaxTime
    /\ data \in {"none", "players"}
    /\ players \in Rankings
    /\ leaderboard_size \in FloorSize..max_leaderboard_size
    /\ client_index \in 0..(NumClients - 1)
    /\ state_file.kind \in {"absent", "truncated", "json"}
    /\ lock \in {"free", "main", "periodic"}
    /\ gpc \in {"none", "idle", "render"}
    /\ Len(final_graph) <= 1

Init ==
    /\ running = FALSE
    /\ pc = "down"
    /\ clock = 0
    /\ data = "none"
    /\ players = <<>>
    /\ data_dict = <<>>
    /\ dict_id = 0
    /\ reset_time = 0
    /\ leaderboard_size = FloorSize
    /\ client_index = 0
    /\ state_file = Absent
    /\ lock = "free"
    /\ gpc = "none"
    /\ task_args = NoTask
    /\ final_graph = <<>>
    /\ attempt = 0
    /\ responses = <<>>
    /\ saved_state = NotLoaded
    /\ artifact = NoArtifact

----------------------------------------------------------------------------
(* Process life cycle *)

\* nothing of the process's memory survives it
Down ==
    /\ running' = FALSE
    /\ pc' = "down"
    /\ data' = "none"
    /\ players' = <<>>
    /\ data_dict' = <<>>
    /\ dict_id' = 0
    /\ reset_time' = 0
    /\ leaderboard_size' = FloorSize
    /\ client_index' = 0
    /\ lock' = "free"
    /\ gpc' = "none"
    /\ task_args' = NoTask
    /\ final_graph' = <<>>
    /\ UNCHANGED auxVars
    /\ UNCHANGED artifact

\* the process is ended from outside without an exception being raised in it (SIGTERM,
\* for which the script installs no handler, SIGKILL, power loss): memory is lost, the
\* disk stays
Kill ==
    /\ running
    /\ Down
    /\ UNCHANGED <<clock, state_file>>

\* the process is killed inside async_save_state, after open(.., "w") has truncated the
\* file and before the document is written
KillInWrite ==
    /\ running /\ pc = "loop"
    /\ clock + ClockStep <= MaxTime
    /\ clock' = clock + ClockStep
    /\ Down
    /\ state_file' = Truncated

\* main() from its first line to the creation of the periodic task
Start ==
    /\ ~running
    /\ clock + ClockStep <= MaxTime
    /\ state_file.kind # "truncated"
    /\ clock' = clock + ClockStep
    /\ LET rt == get_next_reset_time(clock')
           valid == state_file.kind = "json" /\ StateIsValid(state_file, rt)
       IN  /\ reset_time' = rt
           /\ data_dict' = IF valid THEN LoadDataDict(state_file) ELSE <<>>
           /\ final_graph' =
                IF state_file.kind = "json" /\ ~valid
                THEN <<[reset_time |-> LoadResetTime(state_file),
                        data |-> LoadDataDict(state_file)]>>
                ELSE <<>>
           /\ task_args' = [reset_time |-> rt, dict |-> 0]
    /\ running' = TRUE
    /\ pc' = "loop"
    /\ data' = "none"
    /\ players' = <<>>
    /\ dict_id' = 0
    /\ leaderboard_size' = FloorSize
    /\ client_index' = 0
    /\ gpc' = "idle"
    /\ lock' = "free"
    /\ UNCHANGED state_file
    /\ UNCHANGED auxVars
    /\ UNCHANGED artifact

\* json.load raises on an unparseable state file: main() dies before its loop
StartFails ==
    /\ ~running
    /\ clock + ClockStep <= MaxTime
    /\ state_file.kind = "truncated"
    /\ clock' = clock + ClockStep
    /\ UNCHANGED <<running, pc, data, players, data_dict, dict_id, reset_time,
                   leaderboard_size, client_index, state_file, lock, gpc, task_args,
                   final_graph>>
    /\ UNCHANGED auxVars
    /\ UNCHANGED artifact

----------------------------------------------------------------------------
(* Ingestion loop: one action per stretch of main() between two awaits *)

\* mutant: the index is not incremented
SameClient(i) == i

NextClient(i) == (i + 1) % NumClients

HistWithin(d) == \A i \in DOMAIN d : Len(d[i].records) <= MaxHist

\* a tick whose fetch returns None, or a body without "players"
TickFailUntil(horizon) ==
    /\ running /\ pc = "loop"
    /\ clock + ClockStep <= horizon
    /\ clock' = clock + ClockStep
    /\ data' = "none"
    /\ players' = <<>>
    /\ client_index' = NextClient(client_index)
    /\ final_graph' = <<>>
    /\ UNCHANGED <<running, pc, data_dict, dict_id, reset_time, leaderboard_size,
                   state_file, lock, gpc, task_args>>
    /\ UNCHANGED auxVars
    /\ UNCHANGED artifact

\* a tick past the boundary whose ranking is all zero, up to the await of the final graph
TickResetUntil(fetched, horizon) ==
    /\ running /\ pc = "loop"
    /\ clock + ClockStep <= horizon
    /\ clock' = clock + ClockStep
    /\ data' = "players"
    /\ players' = fetched
    /\ clock' >= reset_time /\ all_zero_scores(fetched)
    /\ pc' = "final_wait"
    /\ final_graph' = <<>>
    /\ UNCHANGED <<running, data_dict, dict_id, reset_time, leaderboard_size,
                   client_index, state_file, lock, gpc, task_args>>
    /\ UNCHANGED auxVars
    /\ UNCHANGED artifact

\* any other tick with a ranking: window rule, change tracking, async_save_state, sleep
TickTrackUntil(fetched, horizon) ==
    /\ running /\ pc = "loop"
    /\ clock + ClockStep <= horizon
    /\ clock' = clock + ClockStep
    /\ data' = "players"
    /\ players' = fetched
    /\ ~(clock' >= reset_time /\ all_zero_scores(fetched))
    /\ leaderboard_size' = NextLeaderboardSize(leaderboard_size, fetched)
    /\ data_dict' = TrackChanges(data_dict, fetched, clock')
    /\ HistWithin(data_dict')
    /\ state_file' = SerializeState(data_dict', reset_time)
    /\ client_index' = NextClient(client_index)
    /\ final_graph' = <<>>
    /\ UNCHANGED <<running, pc, dict_id, reset_time, lock, gpc, task_args>>
    /\ UNCHANGED auxVars
    /\ UNCHANGED artifact

TickFail == TickFailUntil(MaxTime)
TickReset(fetched) == TickResetUntil(fetched, MaxTime)
TickTrack(fetched) == TickTrackUntil(fetched, MaxTime)

\* async_save_graph called by main(): the lock is acquired, the executor starts
FinalAcquire ==
    /\ running /\ pc = "final_wait"
    /\ lock = "free"
    /\ lock' = "main"
    /\ pc' = "final_render"
    /\ UNCHANGED <<running, clock, data, players, data_dict, dict_id, reset_time,
                   leaderboard_size, client_index, state_file, gpc, task_args,
                   final_graph>>
    /\ UNCHANGED auxVars
    /\ UNCHANGED artifact

\* mutant: the task created for the outgoing epoch is left in place
RolloverTaskKept(task, rt, d) == task

\* save_graph_task.cancel(), then create_task(periodic_save_graph(.., reset_time, data_dict))
RolloverTask(task, rt, d) == [reset_time |-> rt, dict |-> d]

\* the final graph returns; the rest of the reset branch up to "continue"
ResetBranch ==
    /\ running /\ pc = "final_render"
    /\ final_graph' = Append(final_graph, [reset_time |-> reset_time, data |-> data_dict])
    /\ lock' = "free"
    /\ data_dict' = <<>>
    /\ dict_id' = dict_id + 1
    /\ leaderboard_size' = FloorSize
    /\ reset_time' = RolloverResetTime(clock)
    /\ gpc' = "idle"
    /\ task_args' = RolloverTask(task_args, reset_time', dict_id')
    /\ state_file' = Absent
    /\ pc' = "loop"
    /\ UNCHANGED <<running, clock, data, players, client_index>>
    /\ UNCHANGED auxVars

\* the reset branch, whatever became of the files of the final graph
Rollover ==
    /\ ResetBranch
    /\ UNCHANGED artifact

----------------------------------------------------------------------------
(* Periodic graph task: periodic_save_graph -> async_save_graph -> save_graph_sync *)

\* the task takes the lock and hands save_graph_sync to the executor thread
GraphAcquire ==
    /\ running /\ gpc = "idle"
    /\ lock = "free"
    /\ lock' = "periodic"
    /\ gpc' = "render"
    /\ UNCHANGED <<running, pc, clock, data, players, data_dict, dict_id, reset_time,
                   leaderboard_size, client_index, state_file, task_args, final_graph>>
    /\ UNCHANGED auxVars
    /\ UNCHANGED artifact

\* save_graph_sync returns or raises; the lock is released and the task sleeps
GraphReturns ==
    /\ running /\ gpc = "render"
    /\ lock' = "free"
    /\ gpc' = "idle"
    /\ UNCHANGED <<running, pc, clock, data, players, data_dict, dict_id, reset_time,
                   leaderboard_size, client_index, state_file, task_args, final_graph>>
    /\ UNCHANGED auxVars

\* a periodic graph ends, whatever became of its files
GraphDone ==
    /\ GraphReturns
    /\ UNCHANGED artifact

----------------------------------------------------------------------------
Next ==
    \/ Start
    \/ StartFails
    \/ Kill
    \/ KillInWrite
    \/ TickFail
    \/ \E fetched \in Rankings : TickReset(fetched)
    \/ \E fetched \in Rankings : TickTrack(fetched)
    \/ FinalAcquire
    \/ Rollover
    \/ GraphAcquire
    \/ GraphDone

Spec == Init /\ [][Next]_vars

----------------------------------------------------------------------------
(* Shutdown: main() is left through its finally clause *)

\* the finally clause of main(): async_save_state(data_dict, reset_time), the clients are
\* closed, save_graph_task.cancel(), and asyncio.run returns
Finally ==
    /\ state_file' = SerializeState(data_dict, reset_time)
    /\ Down

\* SIGINT (KeyboardInterrupt) or a cancellation of main(), at whichever await it is
\* suspended: the fetch, the sleep, the lock or the final graph
Interrupt ==
    /\ running
    /\ UNCHANGED clock
    /\ Finally

NextShutdown ==
    \/ Start
    \/ StartFails
    \/ Kill
    \/ KillInWrite
    \/ Interrupt
    \/ TickFail
    \/ \E fetched \in Rankings : TickReset(fetched)
    \/ \E fetched \in Rankings : TickTrack(fetched)
    \/ FinalAcquire
    \/ Rollover
    \/ GraphAcquire
    \/ GraphDone

SpecShutdown == Init /\ [][NextShutdown]_vars

----------------------------------------------------------------------------
(* The graphs with their outcomes: what save_graph_sync meets is chosen, what *)
(* it did is recorded, and async_save_graph logs whatever it raised           *)

ArtifactGraphDone(o) ==
    /\ GraphReturns
    /\ artifact' = save_graph_sync(o)

ArtifactRollover(o) ==
    /\ ResetBranch
    /\ artifact' = save_graph_sync(o)

NextArtifact ==
    \/ Start
    \/ TickFail
    \/ \E fetched \in SeqsUpTo([username : {"a"}, score : Scores], MaxPlayers) :
            TickReset(fetched)
    \/ \E fetched \in SeqsUpTo([username : {"a"}, score : Scores], MaxPlayers) :
            TickTrack(fetched)
    \/ FinalAcquire
    \/ \E o \in RenderOutcomes : ArtifactRollover(o)
    \/ GraphAcquire
    \/ \E o \in RenderOutcomes : ArtifactGraphDone(o)

SpecArtifact == Init /\ [][NextArtifact]_vars

----------------------------------------------------------------------------
(* The ingestion loop alone, over more ticks and rankings of a single entity: *)
(* enough ticks for the window to reach max_leaderboard_size                  *)

WindowRankings == SeqsUpTo([username : {"a"}, score : Scores], MaxPlayers)

WindowTickFail == TickFailUntil(WindowMaxTime)
WindowTickReset(fetched) == TickResetUntil(fetched, WindowMaxTime)
WindowTickTrack(fetched) == TickTrackUntil(fetched, WindowMaxTime)

NextWindow ==
    \/ Start
    \/ WindowTickFail
    \/ \E fetched \in WindowRankings : WindowTickReset(fetched)
    \/ \E fetched \in WindowRankings : WindowTickTrack(fetched)
    \/ FinalAcquire
    \/ Rollover

SpecWindow == Init /\ [][NextWindow]_vars

----------------------------------------------------------------------------
(* async_fetch_data taken apart: one call, attempt by attempt *)

max_retries == 3

\* what the server does on one client.get(): a 2xx answer with a JSON body, a non-2xx
\* status (raise_for_status), a timeout, another transport error, a 2xx answer whose
\* body response.json() cannot decode
Outcomes == {"ok", "http_status", "timeout", "request_error", "bad_json"}

FetchScripts == [1..max_retries -> Outcomes]

\* main() has started and its first tick is at "await async_fetch_data(..)"
InitFetch ==
    /\ running = TRUE
    /\ pc = "fetching"
    /\ clock = ClockStep
    /\ data = "none"
    /\ players = <<>>
    /\ data_dict = <<>>
    /\ dict_id = 0
    /\ reset_time = get_next_reset_time(ClockStep)
    /\ leaderboard_size = FloorSize
    /\ client_index = 0
    /\ state_file = Absent
    /\ lock = "free"
    /\ gpc = "idle"
    /\ task_args = [reset_time |-> get_next_reset_time(ClockStep), dict |-> 0]
    /\ final_graph = <<>>
    /\ attempt = 0
    /\ responses \in FetchScripts
    /\ saved_state = NotLoaded
    /\ artifact = NoArtifact

\* one iteration of "for attempt in range(max_retries)": the try body returns the
\* decoded body, and each of the four except clauses returns (None, 0)
FetchAttempt ==
    /\ running /\ pc = "fetching"
    /\ attempt < max_retries
    /\ attempt' = attempt + 1
    /\ data' = CASE responses[attempt'] = "ok" -> "players"
                 [] responses[attempt'] = "http_status" -> "none"
                 [] responses[attempt'] = "timeout" -> "none"
                 [] responses[attempt'] = "request_error" -> "none"
                 [] responses[attempt'] = "bad_json" -> "none"
    /\ pc' = "loop"
    /\ UNCHANGED <<running, clock, players, data_dict, dict_id, reset_time,
                   leaderboard_size, client_index, state_file, lock, gpc, task_args,
                   final_graph, responses, saved_state, artifact>>

NextFetch == FetchAttempt

SpecFetch == InitFetch /\ [][NextFetch]_vars

----------------------------------------------------------------------------
(* The hourly variant (src/plot.py). It differs from plot_elect.py in the   *)
(* boundary (variable reset_time holds its end_of_hour), in the key of the  *)
(* state file, in load_state and in the clock main() reads.                 *)

Raised == [kind |-> "raised"]
NoState == [kind |-> "none"]

\* (now_est + timedelta(hours=1)).replace(minute=0, second=0, microsecond=0)
get_end_of_hour(now_est) == now_est + 1

\* the JSON document plot.py's async_save_state builds
SerializeStateHourly(d, eoh) ==
    [kind |-> "json",
     data_dict |-> [i \in DOMAIN d |->
        [username |-> d[i].username,
         records |-> [j \in DOMAIN d[i].records |->
            [time |-> IsoFormat(d[i].records[j].time),
             score |-> d[i].records[j].score]]]],
     end_of_hour |-> IsoFormat(eoh)]

\* plot.py's load_state(): None without a file; json.load raises on a file that is not
\* a document; on a document, state["end_of_hour"] is a str, and the next statement
\* reads the local end_of_hour before any assignment to it (UnboundLocalError)
load_state_hourly(f) ==
    CASE f.kind = "absent" -> NoState
      [] f.kind = "truncated" -> Raised
      [] f.kind = "json" -> Raised

\* main() of plot.py from its first line to the creation of the periodic task
HourlyStart ==
    /\ ~running
    /\ clock + ClockStep <= WindowMaxTime
    /\ load_state_hourly(state_file) = NoState
    /\ clock' = clock + ClockStep
    /\ reset_time' = get_end_of_hour(clock')
    /\ data_dict' = <<>>
    /\ final_graph' = <<>>
    /\ task_args' = [reset_time |-> reset_time', dict |-> 0]
    /\ running' = TRUE
    /\ pc' = "loop"
    /\ data' = "none"
    /\ players' = <<>>
    /\ dict_id' = 0
    /\ leaderboard_size' = FloorSize
    /\ client_index' = 0
    /\ gpc' = "idle"
    /\ lock' = "free"
    /\ UNCHANGED state_file
    /\ UNCHANGED auxVars
    /\ UNCHANGED artifact

\* load_state() raises: main() dies before its loop and before its try statement
HourlyStartFails ==
    /\ ~running
    /\ clock + ClockStep <= WindowMaxTime
    /\ load_state_hourly(state_file) = Raised
    /\ clock' = clock + ClockStep
    /\ UNCHANGED <<running, pc, data, players, data_dict, dict_id, reset_time,
                   leaderboard_size, client_index, state_file, lock, gpc, task_args,
                   final_graph>>
    /\ UNCHANGED auxVars
    /\ UNCHANGED artifact

HourlyTickFail == TickFailUntil(WindowMaxTime)

\* the finally clause of main(): async_save_state, the clients are closed, the periodic
\* task is cancelled, and the process ends
HourlyFinally ==
    /\ state_file' = SerializeStateHourly(data_dict, reset_time)
    /\ Down

\* a tick with a ranking: current_time = datetime.now() is naive and end_of_hour is
\* aware, so "current_time >= end_of_hour" raises TypeError; no except clause encloses
\* the loop body, and the error leaves main() through its finally clause
HourlyTickRaise ==
    /\ running /\ pc = "loop"
    /\ clock + ClockStep <= WindowMaxTime
    /\ clock' = clock + ClockStep
    /\ HourlyFinally

\* SIGINT or a cancellation of main(): the finally clause runs
HourlyInterrupt ==
    /\ running
    /\ UNCHANGED clock
    /\ HourlyFinally

NextHourly ==
    \/ HourlyStart
    \/ HourlyStartFails
    \/ HourlyTickFail
    \/ HourlyTickRaise
    \/ HourlyInterrupt
    \/ Kill
    \/ GraphAcquire
    \/ GraphDone

SpecHourly == Init /\ [][NextHourly]_vars

----------------------------------------------------------------------------
(* async_save_state followed by load_state, of either file, on histories   *)
(* and boundaries drawn from bounded sets. data_dict and reset_time hold   *)
(* the arguments of async_save_state, state_file the document it wrote and *)
(* saved_state the value load_state() returned for that document.          *)

\* plot_elect.py's load_state()
load_state(f) ==
    CASE f.kind = "absent" -> NoState
      [] f.kind = "truncated" -> Raised
      [] f.kind = "json" -> [kind |-> "state",
                             data_dict |-> LoadDataDict(f),
                             reset_time |-> LoadResetTime(f)]

RoundTripTimes == {0, ClockStep, 2 * ClockStep}
RoundTripPoints == [time : RoundTripTimes, score : Scores]
\* the points of one entity: at least one, at most MaxHist, of increasing time
RoundTripRecords ==
    {r \in SeqsUpTo(RoundTripPoints, MaxHist) :
        /\ Len(r) > 0
        /\ \A j \in 1..(Len(r) - 1) : r[j].time < r[j + 1].time}
RoundTripHistories ==
    {d \in SeqsUpTo([username : Usernames, records : RoundTripRecords], MaxPlayers) :
        \A i, j \in DOMAIN d : i # j => d[i].username # d[j].username}
\* the boundaries either file computes at these times
RoundTripBoundaries ==
    {get_next_reset_time(t) : t \in RoundTripTimes}
        \cup {RolloverResetTime(t) : t \in RoundTripTimes}
        \cup {get_end_of_hour(t) : t \in RoundTripTimes}

InitRoundTrip ==
    /\ running = TRUE
    /\ pc = "loop"
    /\ clock = 2 * ClockStep
    /\ data = "none"
    /\ players = <<>>
    /\ data_dict \in RoundTripHistories
    /\ dict_id = 0
    /\ reset_time \in RoundTripBoundaries
    /\ leaderboard_size = FloorSize
    /\ client_index = 0
    /\ state_file = Absent
    /\ lock = "free"
    /\ gpc = "idle"
    /\ task_args = [reset_time |-> reset_time, dict |-> 0]
    /\ final_graph = <<>>
    /\ attempt = 0
    /\ responses = <<>>
    /\ saved_state = NotLoaded
    /\ artifact = NoArtifact

\* plot_elect.py: await async_save_state(data_dict, reset_time)
RoundTripSave ==
    /\ state_file = Absent
    /\ state_file' = SerializeState(data_dict, reset_time)
    /\ UNCHANGED <<running, pc, clock, data, players, data_dict, dict_id, reset_time,
                   leaderboard_size, client_index, lock, gpc, task_args, final_graph,
                   attempt, responses, saved_state, artifact>>

\* plot.py: await async_save_state(data_dict, end_of_hour)
RoundTripSaveHourly ==
    /\ state_file = Absent
    /\ state_file' = SerializeStateHourly(data_dict, reset_time)
    /\ UNCHANGED <<running, pc, clock, data, players, data_dict, dict_id, reset_time,
                   leaderboard_size, client_index, lock, gpc, task_args, final_graph,
                   attempt, responses, saved_state, artifact>>

\* plot_elect.py: saved_state = load_state(), on the file plot_elect.py wrote
RoundTripLoad ==
    /\ saved_state = NotLoaded
    /\ state_file.kind = "json" /\ "reset_time" \in DOMAIN state_file
    /\ saved_state' = load_state(state_file)
    /\ UNCHANGED <<running, pc, clock, data, players, data_dict, dict_id, reset_time,
                   leaderboard_size, client_index, state_file, lock, gpc, task_args,
                   final_graph, attempt, responses, artifact>>

\* plot.py: saved_state = load_state(), on the file plot.py wrote
RoundTripLoadHourly ==
    /\ saved_state = NotLoaded
    /\ state_file.kind = "json" /\ "end_of_hour" \in DOMAIN state_file
    /\ saved_state' = load_state_hourly(state_file)
    /\ UNCHANGED <<running, pc, clock, data, players, data_dict, dict_id, reset_time,
                   leaderboard_size, client_index, state_file, lock, gpc, task_args,
                   final_graph, attempt, responses, artifact>>

NextRoundTrip ==
    \/ RoundTripSave
    \/ RoundTripSaveHourly
    \/ RoundTripLoad
    \/ RoundTripLoadHourly

SpecRoundTrip == InitRoundTrip /\ [][NextRoundTrip]_vars

----------------------------------------------------------------------------
(* Vocabulary of the properties *)

\* main() read the clock: a tick began and ran up to its next await
TickStep == running /\ running' /\ pc = "loop" /\ clock' # clock
\* a tick with a ranking that went through window rule, change tracking and save
TrackedStep == TickStep /\ data' = "players" /\ pc' = "loop"
\* a tick that detected the reset and went on to the final graph
ResetStep == TickStep /\ pc' = "final_wait"
\* the reset branch ran to its "continue"
RolloverStep == running /\ running' /\ pc = "final_render" /\ pc' = "loop"

IsPrefix(s, t) == Len(s) <= Len(t) /\ \A i \in DOMAIN s : s[i] = t[i]
Occurrences(ranking, u) == Cardinality({k \in DOMAIN ranking : ranking[k].username = u})
LastScore(d, u) == Last(RecordsOf(d, u)).score
Known(d, u) == u \in Keys(d) /\ Len(RecordsOf(d, u)) > 0

SnapshotAllZero(ranking) == \A k \in DOMAIN ranking : ranking[k].score = 0
\* the top-ranked entity's score is below its last recorded score
TopDecreased(ranking, d) ==
    /\ Len(ranking) > 0
    /\ Known(d, ranking[1].username)
    /\ ranking[1].score < LastScore(d, ranking[1].username)
\* a non-empty ranking of positive scores, none below the entity's last recorded score
PositiveNonDecreased(ranking, d) ==
    /\ Len(ranking) > 0
    /\ \A k \in DOMAIN ranking :
         /\ ranking[k].score > 0
         /\ (Known(d, ranking[k].username) =>
               ranking[k].score >= LastScore(d, ranking[k].username))
\* every score of the ranking equals the entity's last recorded score
SameAsRecorded(ranking, d) ==
    \A k \in DOMAIN ranking :
        /\ Known(d, ranking[k].username)
        /\ ranking[k].score = LastScore(d, ranking[k].username)
\* nothing of d is lost or changed in e: same entities in the same places, records extended
Extends(d, e) ==
    /\ Len(d) <= Len(e)
    /\ \A i \in DOMAIN d :
         /\ e[i].username = d[i].username
         /\ IsPrefix(d[i].records, e[i].records)
\* every entity of the ranking is in e with the score of its last occurrence
Folded(ranking, e) ==
    \A k \in DOMAIN ranking :
        /\ Known(e, ranking[k].username)
        /\ ((\A m \in DOMAIN ranking : m > k => ranking[m].username # ranking[k].username)
              => LastScore(e, ranking[k].username) = ranking[k].score)

----------------------------------------------------------------------------
NoEqualNeighbours(d) ==
    \A i \in DOMAIN d : \A j \in 1..(Len(d[i].records) - 1) :
        d[i].records[j].score # d[i].records[j + 1].score

(* C1: for every entity, no two consecutive points of its history carry    *)
(* equal scores, and a tick whose ranking repeats every entity's last      *)
(* recorded score leaves the history unchanged.                            *)

NoDuplicatePoint ==
    /\ []NoEqualNeighbours(data_dict)
    /\ [][TrackedStep /\ SameAsRecorded(players', data_dict)
            => data_dict' = data_dict]_vars

\* a tick has just applied a ranking equal to the recorded scores, recorded earlier
RepeatedRankingApplied ==
    /\ running /\ pc = "loop" /\ data = "players" /\ final_graph = <<>>
    /\ Len(players) > 0
    /\ SameAsRecorded(players, data_dict)
    /\ \A k \in DOMAIN players : Last(RecordsOf(data_dict, players[k].username)).time < clock
    /\ \E i \in DOMAIN data_dict : Len(data_dict[i].records) > 1

----------------------------------------------------------------------------
(* C2: a tick goes to the reset branch only when now >= reset_time and the *)
(* ranking confirms a reset (all zero, or top score decreased); a tick     *)
(* with a ranking at now < reset_time, or with positive non-decreased      *)
(* scores, keeps accumulating: the history is kept and extended by the     *)
(* ranking, and reset_time and the dict object are unchanged.              *)

RolloverEvidenceGating ==
    /\ [][ResetStep =>
            /\ clock' >= reset_time
            /\ data' = "players"
            /\ (SnapshotAllZero(players') \/ TopDecreased(players', data_dict))]_vars
    /\ [][/\ TickStep /\ data' = "players"
           /\ (clock' < reset_time \/ PositiveNonDecreased(players', data_dict))
           => /\ pc' = "loop"
              /\ reset_time' = reset_time
              /\ dict_id' = dict_id
              /\ Extends(data_dict, data_dict')
              /\ Folded(players', data_dict')]_vars

\* past the boundary, a ranking of positive scores was folded into the kept history
AccumulatedPastBoundary ==
    /\ running /\ pc = "loop" /\ data = "players" /\ final_graph = <<>>
    /\ clock >= reset_time
    /\ Len(players) > 0
    /\ \A k \in DOMAIN players : players[k].score > 0
    /\ Folded(players, data_dict)
    /\ \E i \in DOMAIN data_dict : data_dict[i].records[1].time < reset_time

----------------------------------------------------------------------------
(* C3: a tick at now >= reset_time with an all-zero ranking takes the      *)
(* reset branch; the history is untouched until that branch ends, and at   *)
(* its end one graph has been made, of the outgoing history under the      *)
(* outgoing reset_time, the history is empty, the window is 50, the state  *)
(* file is absent and the new reset_time is later than the tick's now.     *)

RolloverOnAllZero ==
    /\ [][/\ TickStep /\ data' = "players"
           /\ clock' >= reset_time /\ SnapshotAllZero(players')
           => ResetStep /\ UNCHANGED <<data_dict, reset_time, state_file>>]_vars
    /\ [][running /\ running' /\ pc \in {"final_wait", "final_render"} /\ ~RolloverStep
           => /\ pc' \in {"final_wait", "final_render"}
              /\ UNCHANGED <<data_dict, reset_time, clock, players, final_graph>>]_vars
    /\ [][RolloverStep =>
            /\ SnapshotAllZero(players)
            /\ final_graph' = <<[reset_time |-> reset_time, data |-> data_dict]>>
            /\ data_dict' = <<>>
            /\ leaderboard_size' = FloorSize
            /\ state_file' = Absent
            /\ reset_time' > clock]_vars

\* a reset branch has just ended that put away a non-empty history
RolledOver ==
    /\ running /\ pc = "loop" /\ data = "players"
    /\ Len(final_graph) = 1
    /\ Len(final_graph[1].data) > 0
    /\ Len(players) > 0
    /\ data_dict = <<>> /\ state_file = Absent /\ leaderboard_size = FloorSize

----------------------------------------------------------------------------
RenderReadsDataDict ==
    \/ gpc = "render" /\ task_args.dict = dict_id
    \/ pc = "final_render"

(* C4: while an executor thread is iterating the dict object bound to      *)
(* data_dict (a periodic graph, or the final graph of a reset), that dict  *)
(* is not mutated.                                                         *)

NoMutationUnderRender ==
    [][running /\ running' /\ RenderReadsDataDict /\ dict_id' = dict_id
        => data_dict' = data_dict]_vars

----------------------------------------------------------------------------
(* C5: once a tick with a ranking has ended without reset, the state file  *)
(* holds exactly the in-memory history and reset_time; and at every point, *)
(* process up or down, the state file is absent or a whole document from   *)
(* which the in-memory history differs by no more than one tick.           *)

CheckpointWithinOneTick ==
    /\ (running /\ pc = "loop" /\ data = "players" /\ final_graph = <<>>)
          => state_file = SerializeState(data_dict, reset_time)
    /\ state_file.kind \in {"absent", "json"}
    /\ (running /\ state_file.kind = "json")
          => Extends(LoadDataDict(state_file), data_dict)

----------------------------------------------------------------------------
(* C6: at start, a state file whose reset_time is earlier than the freshly *)
(* computed reset_time is not taken as the initial history.                *)

StaleCheckpointNotAdopted ==
    [][/\ ~running /\ running'
       /\ state_file.kind = "json"
       /\ LoadResetTime(state_file) < reset_time'
       => data_dict' = <<>>]_vars

----------------------------------------------------------------------------
Min(x, y) == IF x < y THEN x ELSE y

(* C7: the window starts at 50 and, on every tick whose ranking ends with  *)
(* a positive score, becomes min(2 * window, 12000).                       *)

WindowDoubling ==
    /\ [][~running /\ running' => leaderboard_size' = 50]_vars
    /\ [][/\ TickStep /\ data' = "players"
           /\ Len(players') > 0 /\ Last(players').score > 0
           => leaderboard_size' = Min(2 * leaderboard_size, 12000)]_vars

\* the last tick of a long run had a positive lowest score and the window is at 12000
WindowAtCeiling ==
    /\ running /\ pc = "loop" /\ data = "players"
    /\ clock = WindowMaxTime
    /\ Len(players) > 0 /\ Last(players).score > 0
    /\ leaderboard_size = 12000

----------------------------------------------------------------------------
(* C8: the window stays within 50..12000; while the process runs, a step   *)
(* leaves it, doubles it (capped) on a tracked tick, or resets it to 50 at *)
(* the end of a reset branch; no tick lowers it.                           *)

WindowNeverShrinks ==
    /\ [](leaderboard_size >= 50 /\ leaderboard_size <= 12000)
    /\ [][running /\ running' =>
            \/ leaderboard_size' = leaderboard_size
            \/ TrackedStep /\ leaderboard_size' = Min(2 * leaderboard_size, 12000)
            \/ RolloverStep /\ leaderboard_size' = 50]_vars
    /\ [][TickStep => leaderboard_size' >= leaderboard_size]_vars

\* a failed fetch left a window that had grown to the ceiling as it was
CeilingKeptOnFailedFetch ==
    /\ running /\ pc = "loop" /\ data = "none"
    /\ leaderboard_size = 12000

----------------------------------------------------------------------------
PointsOf(d, u) == IF u \in Keys(d) THEN RecordsOf(d, u) ELSE <<>>
Gained(d, e, u) == Len(PointsOf(e, u)) - Len(PointsOf(d, u))
FirstOccurrence(ranking, u) ==
    ranking[CHOOSE k \in DOMAIN ranking :
                /\ ranking[k].username = u
                /\ \A m \in 1..(k - 1) : ranking[m].username # u]
Changes(d, ranking, u) ==
    \/ ~Known(d, u)
    \/ FirstOccurrence(ranking, u).score # LastScore(d, u)

(* C9: a tracked tick only appends. Entities keep their place and their    *)
(* points; an entity gains at most one point per occurrence in the         *)
(* ranking, every new point carries the tick's time, and an entity that    *)
(* occurs once gains exactly one point if it is new or its score differs   *)
(* from its last recorded score, and none otherwise.                       *)

AppendOnly ==
    [][TrackedStep =>
        /\ Extends(data_dict, data_dict')
        /\ Keys(data_dict') = Keys(data_dict) \cup {players'[k].username : k \in DOMAIN players'}
        /\ \A u \in Keys(data_dict') :
             /\ Gained(data_dict, data_dict', u) <= Occurrences(players', u)
             /\ \A j \in (Len(PointsOf(data_dict, u)) + 1)..Len(PointsOf(data_dict', u)) :
                    /\ PointsOf(data_dict', u)[j].time = clock'
                    /\ \E k \in DOMAIN players' :
                          /\ players'[k].username = u
                          /\ players'[k].score = PointsOf(data_dict', u)[j].score
             /\ (Occurrences(players', u) >= 1 /\ Changes(data_dict, players', u))
                    => Gained(data_dict, data_dict', u) >= 1
             /\ Occurrences(players', u) = 1
                    => Gained(data_dict, data_dict', u) =
                         (IF Changes(data_dict, players', u) THEN 1 ELSE 0)]_vars

\* the last tick appended a point to an entity recorded earlier and added a new entity
AppendedAndAdded ==
    /\ running /\ pc = "loop" /\ data = "players" /\ final_graph = <<>>
    /\ Len(data_dict) = 2
    /\ Len(data_dict[1].records) = 2
    /\ data_dict[1].records[1].time < clock
    /\ data_dict[1].records[2].time = clock
    /\ data_dict[2].records[1].time = clock

----------------------------------------------------------------------------
(* C10: a tick at now >= reset_time whose top-ranked entity has a score    *)
(* below its last recorded score takes the reset branch, even when the     *)
(* ranking is not all zero.                                                *)

RolloverOnTopDecrease ==
    [][/\ TickStep /\ data' = "players"
       /\ clock' >= reset_time
       /\ TopDecreased(players', data_dict)
       /\ ~SnapshotAllZero(players')
       => ResetStep]_vars

----------------------------------------------------------------------------
\* save_graph_sync is running in the executor thread
RenderInFlight == gpc = "render" \/ pc = "final_render"
\* main() is suspended on "async with lock" while the periodic task's render runs
MainWaitsForRender == pc = "final_wait" /\ gpc = "render"

(* C11: a render (periodic or final) runs only while the lock is not held, *)
(* and main() is never suspended on the lock until a periodic render has   *)
(* finished.                                                               *)

RenderOutsideLock ==
    /\ RenderInFlight => lock = "free"
    /\ ~MainWaitsForRender

----------------------------------------------------------------------------
\* the periodic task was created with the current boundary and the current dict object
TaskOfCurrentEpoch == task_args = [reset_time |-> reset_time, dict |-> dict_id]

(* C12: whenever the periodic task exists it is bound to the current       *)
(* history object and the current reset_time, so every periodic render is  *)
(* of the current history under the current boundary; the final graph of a *)
(* reset is of the outgoing history under the outgoing boundary; and when  *)
(* the reset branch ends no render is in flight and the task has been      *)
(* replaced by one bound to the new dict object and the new reset_time.    *)

RenderBoundToEpoch ==
    /\ [](running => TaskOfCurrentEpoch)
    /\ [][RolloverStep =>
            /\ gpc # "render" /\ gpc' = "idle"
            /\ task_args'.dict # task_args.dict
            /\ task_args'.reset_time # task_args.reset_time
            /\ task_args' = [reset_time |-> reset_time', dict |-> dict_id']
            /\ Last(final_graph') = [reset_time |-> reset_time, data |-> data_dict]]_vars

\* after a reset, the new task is rendering the new history, which has data
PeriodicRenderAfterRollover ==
    /\ running /\ gpc = "render"
    /\ dict_id > 0
    /\ task_args.dict = dict_id /\ task_args.reset_time = reset_time
    /\ Len(data_dict) > 0

----------------------------------------------------------------------------
\* async_fetch_data has returned (None, 0)
FetchReturnedFailure == pc = "loop" /\ attempt > 0 /\ data = "none"

(* C13: async_fetch_data returns failure only after 3 attempts, or right   *)
(* after an attempt whose body could not be decoded; an attempt that ends  *)
(* in a transport error or a non-2xx status is followed by another one     *)
(* while fewer than 3 have been made.                                      *)

RetryUntilMaxRetries ==
    FetchReturnedFailure => (attempt = 3 \/ responses[attempt] = "bad_json")

----------------------------------------------------------------------------
(* C14: a tick whose fetch returns no ranking (None, or a body that fails  *)
(* the test for "players") stays in the loop and changes only the rotation *)
(* index, which advances by one: the history and its dict object, the      *)
(* window, reset_time, the state file and the periodic task are unchanged  *)
(* and the reset branch is not taken.                                      *)

FailedFetchSkipsTick ==
    [][TickStep /\ data' = "none" =>
        /\ pc' = "loop"
        /\ client_index' = (client_index + 1) % NumClients
        /\ UNCHANGED <<data_dict, dict_id, leaderboard_size, reset_time, state_file,
                       lock, gpc, task_args>>]_vars

\* a failed tick past the boundary, with a history, a state file and a grown window
FailedTickPastBoundary ==
    /\ running /\ pc = "loop" /\ data = "none"
    /\ clock >= reset_time
    /\ client_index # 0
    /\ Len(data_dict) > 0
    /\ state_file = SerializeState(data_dict, reset_time)
    /\ leaderboard_size > FloorSize

----------------------------------------------------------------------------
(* C15: no tick ends the process: whatever is raised while a tick is being *)
(* processed, main() is still running when the tick is over.               *)

TickNeverTerminates ==
    [][running /\ pc = "loop" /\ clock' # clock => running']_vars

----------------------------------------------------------------------------
\* main() is being started: the only steps of a stopped process that read the clock
StartAttempt == ~running /\ clock' # clock

(* C16: a start that finds a state file it cannot parse goes on as a cold  *)
(* start does: main() runs, with an empty history and the freshly computed *)
(* reset_time.                                                             *)

UnreadableCheckpointIsAbsent ==
    [][StartAttempt /\ state_file.kind = "truncated" =>
        /\ running'
        /\ data_dict' = <<>>
        /\ reset_time' = get_next_reset_time(clock')]_vars

----------------------------------------------------------------------------
\* the history and the boundary stored in a state file of plot.py
StoredHistory(f) ==
    [i \in DOMAIN f.data_dict |->
        [username |-> f.data_dict[i].username,
         records |-> [j \in DOMAIN f.data_dict[i].records |->
            [time |-> FromIsoFormat(f.data_dict[i].records[j].time),
             score |-> f.data_dict[i].records[j].score]]]]
StoredBoundary(f) == FromIsoFormat(f.end_of_hour)

(* C17: a start that finds a state file runs main() with the freshly       *)
(* computed boundary; the stored history is the initial history if the     *)
(* hour of the stored boundary equals the hour of the fresh one, and       *)
(* otherwise the history is empty and exactly one graph has been made, of  *)
(* the stored history under the stored boundary.                           *)

StartupAdoptsOnEqualHour ==
    [][StartAttempt /\ state_file.kind = "json" =>
        /\ running'
        /\ reset_time' = get_end_of_hour(clock')
        /\ IF HourOf(StoredBoundary(state_file)) = HourOf(reset_time')
           THEN data_dict' = StoredHistory(state_file) /\ final_graph' = <<>>
           ELSE /\ data_dict' = <<>>
                /\ final_graph' = <<[reset_time |-> StoredBoundary(state_file),
                                     data |-> StoredHistory(state_file)]>>]_vars

----------------------------------------------------------------------------
(* C18: load_state() on the document async_save_state wrote for (H, b)     *)
(* returns H and b: the same entities in the same order, each with the     *)
(* same points in the same order, and the same boundary.                   *)

CheckpointRoundTrip ==
    saved_state # NotLoaded =>
        /\ saved_state.kind = "state"
        /\ saved_state.data_dict = data_dict
        /\ saved_state.reset_time = reset_time

----------------------------------------------------------------------------
(* C19: whenever the process stops running, the step that stops it has     *)
(* written the state file from the history and reset_time main() held, and *)
(* the periodic task is gone.                                              *)

FinalSaveOnTermination ==
    [][running /\ ~running' =>
        /\ state_file' = SerializeState(data_dict, reset_time)
        /\ gpc' = "none"]_vars

----------------------------------------------------------------------------
\* no entity is named twice in the ranking
DistinctEntities(ranking) == \A u \in Usernames : Occurrences(ranking, u) <= 1

(* C20: a tick that folds a ranking into the current history never gives   *)
(* an entity a last point whose score is below the score of the last point *)
(* it had before the tick; the scores of an entity's successive points in  *)
(* one epoch never decrease.                                               *)

NonDecreasingWithinEpoch ==
    [][TrackedStep /\ DistinctEntities(players') =>
        \A i \in DOMAIN data_dict :
            Last(data_dict'[i].records).score >= Last(data_dict[i].records).score]_vars

----------------------------------------------------------------------------
(* C21: for every entity of the history, each point is later than the      *)
(* point before it.                                                        *)

StrictlyIncreasingTimes ==
    \A i \in DOMAIN data_dict : \A j \in 1..(Len(data_dict[i].records) - 1) :
        data_dict[i].records[j].time < data_dict[i].records[j + 1].time


----------------------------------------------------------------------------
(* C22: a graph file is written to the synced folder first, to the local   *)
(* folder only when the synced write failed, and failure is reported only  *)
(* when both writes failed; a graph whose render raised or whose writes    *)
(* failed leaves the periodic task alive and main() in its loop.           *)

\* what one save_file_with_fallback call did, against what its two writes met
FileContract(f, synced_ok, local_ok) ==
    f # NotCalled =>
        /\ f.tried[1] = "synced"
        /\ Len(f.tried) > 1 => ~synced_ok /\ f.tried = <<"synced", "local">>
        /\ ~f.returned => ~synced_ok /\ ~local_ok

\* the call raised before writing, or lost one of its two files
GraphFailed(a) ==
    \/ a.raised
    \/ a.html # NotCalled /\ ~a.html.returned
    \/ a.png # NotCalled /\ ~a.png.returned

PeriodicGraphEnds == gpc = "render" /\ gpc' = "idle"

ArtifactFallbackSwallowed ==
    /\ [](/\ FileContract(artifact.html, artifact.met.html_synced, artifact.met.html_local)
          /\ FileContract(artifact.png, artifact.met.png_synced, artifact.met.png_local))
    /\ [][GraphFailed(artifact') /\ (PeriodicGraphEnds \/ RolloverStep) =>
            /\ running' /\ pc' # "down"
            /\ gpc' = "idle" /\ task_args' # NoTask]_vars
    /\ [][GraphFailed(artifact') /\ RolloverStep => pc' = "loop"]_vars

\* the HTML file went to the local folder after the synced write failed, the PNG file
\* was lost in both folders, and both the loop and the periodic task go on
ArtifactFailedLoopRuns ==
    /\ artifact.html.tried = <<"synced", "local">> /\ artifact.html.saved = "local"
    /\ artifact.html.returned
    /\ artifact.png.tried = <<"synced", "local">> /\ ~artifact.png.returned
    /\ running /\ pc = "loop" /\ gpc = "idle"

----------------------------------------------------------------------------
\* main() runs on a history loaded from a state file whose boundary has passed and is
\* not the boundary in memory, and no fetch has returned a ranking since the start
ResumedPastBoundary ==
    /\ running /\ pc = "loop" /\ data = "none"
    /\ state_file.kind = "json"
    /\ LoadResetTime(state_file) <= clock
    /\ LoadResetTime(state_file) < reset_time
    /\ Len(data_dict) > 0 /\ data_dict = LoadDataDict(state_file)

(* C23: after a restart past the boundary of the loaded state, the first    *)
(* fetch that returns a ranking is checked for the reset before it is       *)
(* tracked: a ranking of zeros takes the reset branch and none of its       *)
(* scores joins the loaded history.                                         *)

FirstFetchChecksReset ==
    [][/\ ResumedPastBoundary
       /\ TickStep /\ data' = "players"
       /\ Len(players') > 0 /\ SnapshotAllZero(players')
       => ResetStep /\ data_dict' = data_dict]_vars

----------------------------------------------------------------------------
(* The ingestion loop against a source that behaves: every fetch returns a  *)
(* ranking with at least one entity, no entity twice, highest score first;  *)
(* from one fetch to the next the source either goes on (no entity leaves,  *)
(* no score falls) or has reset (every score is zero).                      *)

Descending(ranking) ==
    \A k \in 1..(Len(ranking) - 1) : ranking[k].score >= ranking[k + 1].score

SourceGoesOn(prev, ranking) ==
    \A j \in DOMAIN prev : \E k \in DOMAIN ranking :
        /\ ranking[k].username = prev[j].username
        /\ ranking[k].score >= prev[j].score

SourceHasReset(ranking) == SnapshotAllZero(ranking)

SourceRankings(prev) ==
    {ranking \in Rankings :
        /\ Len(ranking) > 0 /\ DistinctEntities(ranking) /\ Descending(ranking)
        /\ SourceGoesOn(prev, ranking) \/ SourceHasReset(ranking)}

NextSource ==
    \/ Start
    \/ \E fetched \in SourceRankings(players) : TickResetUntil(fetched, SourceMaxTime)
    \/ \E fetched \in SourceRankings(players) : TickTrackUntil(fetched, SourceMaxTime)
    \/ FinalAcquire
    \/ Rollover

SpecSource == Init /\ [][NextSource]_vars

\* the history holds, for one entity, a score followed by a lower one: with this
\* source, a score from before a reset followed by one from after it
ResetInsideHistory(d) ==
    \E i \in DOMAIN d : \E j \in 1..(Len(d[i].records) - 1) :
        d[i].records[j].score > d[i].records[j + 1].score

\* the tick's ranking shows that the source has reset since the previous fetch
SourceResetSeen ==
    /\ TickStep /\ data' = "players"
    /\ \E k \in DOMAIN players : players[k].score > 0
    /\ SourceHasReset(players')

(* C24: no reset of the source is missed, whether it comes before or after  *)
(* the boundary: when a fetch shows a reset of the source, every earlier    *)
(* reset has had its rollover, so the history holds no scores from both     *)
(* sides of an earlier reset.                                               *)

NoSourceResetMissed ==
    [][SourceResetSeen => ~ResetInsideHistory(data_dict)]_vars

(* C25: the index into clients moves on by one, modulo their number, from   *)
(* one fetch to the next: over a tick that failed, over a tick that was     *)
(* tracked, and over a tick that went through the reset branch.             *)

RotationAdvancesEveryTick ==
    /\ [][TickStep /\ pc' = "loop" => client_index' = (client_index + 1) % NumClients]_vars
    /\ [][ResetStep => client_index' = client_index]_vars
    /\ [][running /\ pc = "final_wait" /\ pc' = "final_render" =>
            client_index' = client_index]_vars
    /\ [][RolloverStep => client_index' = (client_index + 1) % NumClients]_vars

(* C26: the reset branch is taken only on a ranking with at least one       *)
(* entity; a tick past the boundary whose ranking is empty leaves history,  *)
(* window size and boundary as they were, and a state file it writes        *)
(* carries the same boundary.                                               *)

EmptyRankingNoRollover ==
    /\ [][ResetStep => Len(players') > 0]_vars
    /\ [][RolloverStep => Len(players) > 0]_vars
    /\ [][/\ TickStep /\ data' = "players" /\ players' = <<>>
          /\ clock' >= reset_time
          => /\ UNCHANGED <<data_dict, leaderboard_size, reset_time>>
             /\ state_file'.kind = "json" => LoadResetTime(state_file') = reset_time]_vars

====
